---- MODULE Spec2Model ----
(***************************************************************************)
(* A model of the three data-preparation scripts of examples/hi_xiaowen/s0: *)
(*   数据平衡.py      balance_samples                                       *)
(*   数据标签制作.py  split_and_generate_labels                              *)
(*   数据增强.py      add_noise_to_audio                                     *)
(* Each script has its own specification (SpecBalance, SpecSplit,          *)
(* SpecNoise); the variables of the other two scripts stay idle.           *)
(***************************************************************************)
EXTENDS Integers, Sequences, FiniteSets

VARIABLES
    rng,         \* state of the process-wide generator of module `random`
    inWalk,      \* balance: the input corpus, in the order os.walk yields it
    unreadable,  \* balance: input files whose copy raises (caught, line 84)
    outRoot,     \* balance: the output folder [exists, files]
    bal,         \* balance: what the last call of balance_samples did
    cfg,         \* split: the (split_ratio, random_seed) both calls are given
    labelDir,    \* split: the label folder [exists, files]
    first,       \* split: the first call of split_and_generate_labels
    second,      \* split: the second call
    wavOut,      \* noise: the waveform written at output_path, or NoWav
    call         \* noise: what the last call of add_noise_to_audio did

vars == <<rng, inWalk, unreadable, outRoot, bal, cfg, labelDir, first, second,
          wavOut, call>>

balanceVars == <<inWalk, unreadable, outRoot, bal>>
splitVars == <<cfg, labelDir, first, second>>
noiseVars == <<wavOut, call>>

(***************************************************************************)
(* Bounds of the model.                                                    *)
(***************************************************************************)
\* the largest number of files the input folder of balance_samples holds
MaxFiles == 5
\* the largest number of files the balanced folder holds
MaxBalanced == 4
\* the longest waveform whose samples are enumerated
MaxLen == 3

Idle == [status |-> "idle"]

NoWav == [status |-> "absent"]

(***************************************************************************)
(* Sequences and sets.                                                     *)
(***************************************************************************)
Range(s) == {s[i] : i \in DOMAIN s}

Injective(s) == \A i, j \in DOMAIN s : s[i] = s[j] => i = j

\* every order in which a folder holding at most max files of F can be
\* enumerated
Walks(F, max) ==
    UNION {{s \in [1..n -> F] : Injective(s)} : n \in 0..max}

Swap(s, i, j) == [s EXCEPT ![i] = s[j], ![j] = s[i]]

(***************************************************************************)
(* The generator of module `random`, abstracted to a small congruential    *)
(* generator: seeding fixes the state, every draw advances it.             *)
(***************************************************************************)
\* a mutant: random.seed() left out, the generator goes on from where the
\* previous call left it
SeedGenKeep(seed) == rng

SeedGen(seed) == seed % 31

NextGen(g) == (g * 3 + 5) % 31

\* Random._randbelow(n): one draw, [val |-> a number in 0..n-1, g |-> state]
RandBelow(n, g) == [val |-> NextGen(g) % n, g |-> NextGen(g)]

\* random.shuffle(x): for i in reversed(range(1, len(x))):
\*                        j = randbelow(i + 1); x[i], x[j] = x[j], x[i]
\* (indices below are 1-based: position i here is Python's i - 1)
RECURSIVE ShuffleFrom(_, _, _)
ShuffleFrom(x, i, g) ==
    IF i < 2 THEN [out |-> x, g |-> g]
    ELSE LET r == RandBelow(i, g)
         IN  ShuffleFrom(Swap(x, i, r.val + 1), i - 1, r.g)

Shuffle(x, g) == ShuffleFrom(x, Len(x), g)

\* a mutant of the pool update of random.sample: the drawn element stays in
\* the pool, so it can be drawn again
PoolAfterDrawKeep(pool, j, last) == pool

\* random.sample, pool branch: pool[j] = pool[n - i - 1]
PoolAfterDraw(pool, j, last) == [pool EXCEPT ![j] = pool[last]]

\* random.sample(population, k), the pool branch taken for len <= 21:
\*   for i in range(k): j = randbelow(n - i); result[i] = pool[j];
\*                      pool[j] = pool[n - i - 1]
RECURSIVE SampleFrom(_, _, _, _)
SampleFrom(pool, left, k, g) ==
    IF k = 0 THEN [out |-> <<>>, g |-> g]
    ELSE LET r == RandBelow(left, g)
             rest == SampleFrom(PoolAfterDraw(pool, r.val + 1, left),
                                left - 1, k - 1, r.g)
         IN  [out |-> <<pool[r.val + 1]>> \o rest.out, g |-> rest.g]

Sample(population, k, g) == SampleFrom(population, Len(population), k, g)

\* the seeds the calls are given (42 is the scripts' default)
Seeds == {42, 7}

(***************************************************************************)
(* Files and the scan both scripts start with.                             *)
(***************************************************************************)
\* a file name: its leading word, the rest of its stem, its extension
File(p, i, e) == [prefix |-> p, id |-> i, ext |-> e]

positive_prefixes == {"base", "aug"}

audio_formats == {".wav", ".flac", ".mp3", ".m4a"}

\* str.lower() on the extensions of the model
Lower(e) == CASE e = ".WAV" -> ".wav"
              [] e = ".TXT" -> ".txt"
              [] OTHER -> e

\* file.lower().endswith(audio_formats)
IsAudio(f) == Lower(f.ext) \in audio_formats

\* any(file.startswith(prefix) for prefix in positive_prefixes)
IsPositive(f) == f.prefix \in positive_prefixes

IsPosAudio(f) == IsAudio(f) /\ IsPositive(f)

IsNegAudio(f) == IsAudio(f) /\ ~IsPositive(f)

\* the walk of the folder: the audio files, split by prefix, in walk order
ScanPositive(walk) == SelectSeq(walk, IsPosAudio)

ScanNegative(walk) == SelectSeq(walk, IsNegAudio)

(***************************************************************************)
(* balance_samples                                                         *)
(***************************************************************************)
BalanceFiles ==
    { File("base", 1, ".wav"), File("aug", 1, ".WAV"),
      File("neg", 1, ".wav"), File("neg", 2, ".flac"), File("neg", 3, ".wav"),
      File("base", 9, ".txt") }

\* the orders in which os.walk can yield the input folder
BalanceWalks == Walks(BalanceFiles, MaxFiles)

\* a file somebody left in the output folder that is no file of the corpus
Stale == File("old", 0, ".wav")

NoRoot == [exists |-> FALSE, files |-> {}]

\* a mutant: shutil.rmtree left out, only os.makedirs(exist_ok=True)
ResetRootKeep(root) == [exists |-> TRUE, files |-> root.files]

\* if os.path.exists(output_folder): shutil.rmtree(output_folder)
\* os.makedirs(output_folder, exist_ok=True)
ResetRoot(root) == [exists |-> TRUE, files |-> {}]

\* shutil.copy2 of every copied file to its relative path under the root
AddFiles(root, copied) ==
    [exists |-> TRUE, files |-> root.files \cup Range(copied)]

\* the copy loop: a file whose copy raises is reported and skipped
CopiedFiles(selected, unread) ==
    SelectSeq(selected, LAMBDA f : f \notin unread)

\* the call raised ValueError at line 50, the output folder being `left`
Raised(walk, unread, seed, root, left, g) ==
    [status |-> "ValueError", walk |-> walk, unread |-> unread, seed |-> seed,
     pos |-> ScanPositive(walk), neg |-> ScanNegative(walk),
     sampled |-> <<>>, copied |-> <<>>, before |-> root, after |-> left,
     g |-> g]

\* steps 5 to 8: sample, reset the output folder, copy
Completed(walk, unread, seed, root, g) ==
    LET pos == ScanPositive(walk)
        neg == ScanNegative(walk)
        smp == Sample(neg, Len(pos), g)
        copied == CopiedFiles(pos \o smp.out, unread)
    IN  [status |-> "ok", walk |-> walk, unread |-> unread, seed |-> seed,
         pos |-> pos, neg |-> neg,
         sampled |-> smp.out, copied |-> copied, before |-> root,
         after |-> AddFiles(ResetRoot(root), copied),
         g |-> smp.g]

\* a mutant: the output folder is reset before the counts are compared
BalanceResultLateCheck(walk, unread, seed, root) ==
    IF Len(ScanNegative(walk)) < Len(ScanPositive(walk))
    THEN Raised(walk, unread, seed, root, ResetRoot(root), SeedGen(seed))
    ELSE Completed(walk, unread, seed, root, SeedGen(seed))

\* the whole call: seed, scan, compare the counts, then steps 5 to 8
BalanceResult(walk, unread, seed, root) ==
    IF Len(ScanNegative(walk)) < Len(ScanPositive(walk))
    THEN Raised(walk, unread, seed, root, root, SeedGen(seed))
    ELSE Completed(walk, unread, seed, root, SeedGen(seed))

BalanceSamples(seed) ==
    LET r == BalanceResult(inWalk, unreadable, seed, outRoot)
    IN  /\ bal' = r
        /\ outRoot' = r.after
        /\ rng' = r.g
        /\ UNCHANGED <<inWalk, unreadable>>
        /\ UNCHANGED splitVars
        /\ UNCHANGED noiseVars

\* the environment: somebody leaves a file in the output folder
LeaveStale ==
    /\ Stale \notin outRoot.files
    /\ outRoot' = [exists |-> TRUE, files |-> outRoot.files \cup {Stale}]
    /\ UNCHANGED <<rng, inWalk, unreadable, bal>>
    /\ UNCHANGED splitVars
    /\ UNCHANGED noiseVars

InitBalance ==
    /\ rng \in {0, 1}
    /\ inWalk \in BalanceWalks
    /\ unreadable \in {{}} \cup {{f} : f \in Range(inWalk)}
    /\ outRoot = NoRoot
    /\ bal = Idle
    /\ cfg = Idle
    /\ labelDir = NoRoot
    /\ first = Idle
    /\ second = Idle
    /\ wavOut = NoWav
    /\ call = Idle

NextBalance ==
    \/ \E seed \in Seeds : BalanceSamples(seed)
    \/ LeaveStale

SpecBalance == InitBalance /\ [][NextBalance]_vars

(***************************************************************************)
(* Claims about balance_samples.                                           *)
(***************************************************************************)
PosIn(F) == {f \in F : IsPosAudio(f)}

NegIn(F) == {f \in F : IsNegAudio(f)}

\* C1, as the spec states it: after a run with N >= P the output folder
\* holds exactly P positive and exactly P negative entries, the negative
\* ones distinct members of the original negative set.
C1_ExactlyPandP ==
    bal.status = "ok" =>
        /\ Cardinality(PosIn(bal.after.files)) = Len(bal.pos)
        /\ Cardinality(NegIn(bal.after.files)) = Len(bal.pos)
        /\ NegIn(bal.after.files) \subseteq Range(bal.neg)

\* C1, amended: a run with N >= P selects all P positives and P pairwise
\* distinct members of the negative set; the output folder afterwards holds
\* exactly the selected entries whose copy did not fail, hence exactly P
\* positive and P negative entries when no copy fails.
C1_SelectedAndCopied ==
    bal.status = "ok" =>
        /\ Len(bal.neg) >= Len(bal.pos)
        /\ Len(bal.sampled) = Len(bal.pos)
        /\ Injective(bal.sampled)
        /\ Range(bal.sampled) \subseteq Range(bal.neg)
        /\ bal.after.files =
               (Range(bal.pos) \cup Range(bal.sampled)) \ bal.unread
        /\ (bal.unread \cap (Range(bal.pos) \cup Range(bal.sampled)) = {} =>
               /\ Cardinality(PosIn(bal.after.files)) = Len(bal.pos)
               /\ Cardinality(NegIn(bal.after.files)) = Len(bal.pos))

\* a run over 2 positives and 3 negatives in which one copy failed
C1_Witness ==
    /\ bal.status = "ok"
    /\ Len(bal.pos) = 2
    /\ Len(bal.neg) = 3
    /\ Len(bal.copied) = 3

\* C2: a run with fewer negative than positive files raises and leaves
\* the output folder exactly as it was: absent if absent, its contents
\* kept if present, nothing sampled or copied.
C2_InsufficientUntouched ==
    (bal # Idle /\ Len(bal.neg) < Len(bal.pos)) =>
        /\ bal.status = "ValueError"
        /\ bal.after = bal.before
        /\ bal.copied = <<>>
        /\ (outRoot = bal.after \/ outRoot.files = bal.after.files \cup {Stale})

\* a failed run against an output folder that held a file
C2_Witness ==
    /\ bal.status = "ValueError"
    /\ bal.before.files # {}
    /\ outRoot = bal.before

\* what a completed run leaves: the files it copied and nothing else
LeakFree ==
    bal.status = "ok" => bal.after.files = Range(bal.copied)

\* a completed run right after a completed run over the same corpus, with
\* the same seed, leaves the folder as the first run left it
IdempotentStep ==
    ( /\ bal.status = "ok"
      /\ bal'.status = "ok"
      /\ bal'.walk = bal.walk
      /\ bal'.unread = bal.unread
      /\ bal'.seed = bal.seed
      /\ bal'.before = bal.after )
        => (bal'.after = bal.after /\ (bal' # bal => outRoot' = outRoot))

\* C10: reruns are idempotent and leak-free: after every completed run the
\* output folder holds exactly the entries that run copied, and a second
\* run in a row with the same corpus and seed changes nothing.
C10_IdempotentLeakFree == [](LeakFree) /\ [][IdempotentStep]_vars

\* a completed run over a folder that held a stale file and the output of
\* an earlier run with another sample
C10_Witness ==
    /\ bal.status = "ok"
    /\ Stale \in bal.before.files
    /\ \E f \in bal.before.files : f # Stale /\ f \notin bal.after.files
    /\ Len(bal.neg) > Len(bal.pos)
    /\ outRoot = bal.after

(***************************************************************************)
(* split_and_generate_labels                                               *)
(***************************************************************************)
SplitFiles ==
    { File("base", 1, ".wav"), File("aug", 1, ".WAV"),
      File("neg", 1, ".wav"), File("neg", 2, ".wav"), File("neg", 1, ".flac") }

\* split_ratio as the caller gives it: (dev, test, train), any integers
Ratios == { <<1, 1, 8>>, <<1, 1, 1>>, <<0, 1, 1>>, <<1, -1, 1>>, <<1, -1, 0>> }

\* os.path.splitext(file)[0]: the file name without its extension
Stem(f) == <<f.prefix, f.id>>

Stems(files) == [i \in DOMAIN files |-> Stem(files[i])]

Abs(x) == IF x < 0 THEN -x ELSE x

\* int(a / b) for b # 0: the quotient, rounded towards zero
IntDiv(a, b) ==
    IF (a >= 0) = (b > 0) THEN Abs(a) \div Abs(b) ELSE -(Abs(a) \div Abs(b))

\* a slice bound as Python reads it: a negative one counts from the end,
\* and both ends are clamped to the list
SliceBound(i, n) ==
    IF i < 0 THEN (IF i + n < 0 THEN 0 ELSE i + n)
    ELSE (IF i > n THEN n ELSE i)

\* s[lo:hi]
PySlice(s, lo, hi) ==
    SubSeq(s, SliceBound(lo, Len(s)) + 1, SliceBound(hi, Len(s)))

\* p_train_num = pos_count - p_dev_num - p_test_num
TrainNum(n, dev_num, test_num) == n - dev_num - test_num

\* step 4 for one class: the three counts
SplitNums(n, ratio) ==
    LET total_ratio == ratio[1] + ratio[2] + ratio[3]
        dev_num == IntDiv(n * ratio[1], total_ratio)
        test_num == IntDiv(n * ratio[2], total_ratio)
    IN  [dev |-> dev_num, test |-> test_num,
         train |-> TrainNum(n, dev_num, test_num)]

\* step 5 for one class: the three slices of the shuffled list
Slices(shuffled, nums) ==
    [dev |-> PySlice(shuffled, 0, nums.dev),
     test |-> PySlice(shuffled, nums.dev, nums.dev + nums.test),
     train |-> PySlice(shuffled, nums.dev + nums.test, Len(shuffled))]

\* build_label_list(sample_list, keyword_id)
BuildLabelList(sample_list, keyword_id) ==
    [i \in DOMAIN sample_list |->
        [utt_id |-> sample_list[i], speaker_id |-> sample_list[i],
         keyword_id |-> keyword_id]]

NoLabelDir == [exists |-> FALSE, files |-> {}]

\* the six label lists of step 6, by the name of the file they go to
LabelFiles(p, n) ==
    [p_dev |-> BuildLabelList(p.dev, 0), p_test |-> BuildLabelList(p.test, 0),
     p_train |-> BuildLabelList(p.train, 0),
     n_dev |-> BuildLabelList(n.dev, -1), n_test |-> BuildLabelList(n.test, -1),
     n_train |-> BuildLabelList(n.train, -1)]

\* steps 7 and 8: os.makedirs(exist_ok=True), then the six files are
\* written (opened with "w": what a file held before is replaced)
WriteLabels(dir, labels) == [exists |-> TRUE, files |-> {labels}]

\* the whole call: ZeroDivisionError at line 59 when the ratio sums to 0,
\* before anything is written; otherwise steps 4 to 8
SplitResult(walk, ratio, seed, dir) ==
    LET pos == Stems(ScanPositive(walk))
        neg == Stems(ScanNegative(walk))
        g0 == SeedGen(seed)
    IN  IF ratio[1] + ratio[2] + ratio[3] = 0
        THEN [status |-> "ZeroDivisionError", walk |-> walk,
              pos |-> pos, neg |-> neg,
              p_num |-> Idle, n_num |-> Idle, p |-> Idle, n |-> Idle,
              dir |-> dir, g |-> g0]
        ELSE LET p_num == SplitNums(Len(pos), ratio)
                 n_num == SplitNums(Len(neg), ratio)
                 ps == Shuffle(pos, g0)
                 ns == Shuffle(neg, ps.g)
                 p == Slices(ps.out, p_num)
                 n == Slices(ns.out, n_num)
             IN  [status |-> "ok", walk |-> walk,
                  pos |-> pos, neg |-> neg,
                  p_num |-> p_num, n_num |-> n_num, p |-> p, n |-> n,
                  dir |-> WriteLabels(dir, LabelFiles(p, n)),
                  g |-> ns.g]

\* what a call keeps in memory: everything but the folder it wrote
Memory(r) == [f \in DOMAIN r \ {"dir", "g"} |-> r[f]]

\* the orders in which os.walk can yield the balanced folder
SplitWalks == Walks(SplitFiles, MaxBalanced)

\* one call on the balanced folder as os.walk yields it this time; two
\* calls are followed, so that what they produce can be compared
SplitAndGenerateLabels ==
    /\ second = Idle
    /\ \E walk \in SplitWalks :
          LET r == SplitResult(walk, cfg.ratio, cfg.seed, labelDir)
          IN  /\ IF first = Idle
                 THEN first' = Memory(r) /\ second' = second
                 ELSE first' = first /\ second' = Memory(r)
              /\ labelDir' = r.dir
              /\ rng' = r.g
    /\ UNCHANGED cfg
    /\ UNCHANGED balanceVars
    /\ UNCHANGED noiseVars

InitSplit ==
    /\ rng \in {0, 1}
    /\ cfg \in [ratio : Ratios, seed : Seeds]
    /\ labelDir = NoLabelDir
    /\ first = Idle
    /\ second = Idle
    /\ inWalk = <<>>
    /\ unreadable = {}
    /\ outRoot = NoRoot
    /\ bal = Idle
    /\ wavOut = NoWav
    /\ call = Idle

NextSplit == SplitAndGenerateLabels

SpecSplit == InitSplit /\ [][NextSplit]_vars

(***************************************************************************)
(* Claims about split_and_generate_labels.                                 *)
(***************************************************************************)
Calls == {r \in {first, second} : r # Idle}

Completed2 == first.status = "ok" /\ second.status = "ok"

\* how often x occurs in list s
Count(x, s) == Cardinality({i \in DOMAIN s : s[i] = x})

\* the three slices of a class are disjoint and cover the class: put end
\* to end they hold every entry of the class list exactly as often as the
\* class list does
Partitions(sl, class) ==
    LET all == sl.dev \o sl.test \o sl.train
    IN  /\ Len(all) = Len(class)
        /\ \A x \in Range(all) \cup Range(class) :
               Count(x, all) = Count(x, class)

\* C3: for any class size and any ratio triple the three counts sum to
\* the class size and the Dev, Test and Train slices are pairwise disjoint
\* and cover the class, each entry of the class landing in exactly one
\* split.
C3_SplitsPartition ==
    \A r \in Calls : r.status = "ok" =>
        /\ r.p_num.dev + r.p_num.test + r.p_num.train = Len(r.pos)
        /\ r.n_num.dev + r.n_num.test + r.n_num.train = Len(r.neg)
        /\ Partitions(r.p, r.pos)
        /\ Partitions(r.n, r.neg)

\* C7: two calls on the same set of files with the same ratio and seed
\* produce the same six label lists, whatever order the walk yields the
\* files in.
C7_SameFilesSameLabels ==
    (Completed2 /\ Range(first.walk) = Range(second.walk))
        => /\ first.p = second.p
           /\ first.n = second.n
           /\ labelDir.files = {LabelFiles(first.p, first.n)}

\* C8: a call with a ratio that has a component <= 0 fails before anything
\* is written: the label folder is as it was before the call.
C8_BadRatioRejected ==
    (\E i \in 1..3 : cfg.ratio[i] <= 0) =>
        /\ \A r \in Calls : r.status # "ok"
        /\ labelDir = NoLabelDir

\* C9, as the spec states it: the negative split depends on the negative
\* stem list, the ratio and the seed only; two calls equal in those give
\* the same negative split though their positive classes differ in size.
C9_NegativeSplitIndependent ==
    (Completed2 /\ first.neg = second.neg) => first.n = second.n

\* C9, amended: the generator is seeded once per call and the negative
\* class is shuffled with the generator as the shuffle of the positive
\* class left it, so the negative split depends on the negative stem list,
\* the ratio, the seed and the size of the positive class: two calls equal
\* in those give the same negative split.
C9_NegativeSplitGivenPositiveSize ==
    (Completed2 /\ first.neg = second.neg /\ Len(first.pos) = Len(second.pos))
        => first.n = second.n

\* two calls with the same two negatives, split over Test and Train, and
\* two positives each, the positives walked in another order
C9_Witness ==
    /\ Completed2
    /\ first.neg = second.neg
    /\ Len(first.neg) = 2
    /\ Len(first.pos) = 2
    /\ Len(second.pos) = 2
    /\ first.pos # second.pos
    /\ Len(first.n.test) = 1
    /\ Len(first.n.train) = 1

(***************************************************************************)
(* add_noise_to_audio                                                      *)
(* Amplitudes are fixed-point: Unit stands for 1.0. A sample computed by   *)
(* numpy is [nan, v]: nan is set when the value is not a number.           *)
(***************************************************************************)
\* 1.0, the bound of np.clip
Unit == 4

\* int(len(y) * 0.001): one impulse per 1000 samples
ImpulseDivisor == 1000

Num(v) == [nan |-> FALSE, v |-> v]

NaN == [nan |-> TRUE, v |-> 0]

NoiseTypes == {"white", "pink", "impulse", "brown"}

\* noise_level, in units of 1/Unit: 0.25 and 2.0
NoiseLevels == {1, 2 * Unit}

SampleRates == {16000}

\* the samples librosa.load returns lie in [-1.0, 1.0]
SampleValues == {-Unit, -1, 0, Unit}

\* the waveforms read: every short one, and constant ones long enough for
\* one impulse and for two
Waveforms ==
    {[i \in 1..n |-> v] :
        n \in {ImpulseDivisor, 2 * ImpulseDivisor}, v \in {0, Unit}}
      \cup UNION {[1..n -> SampleValues] : n \in 0..MaxLen}

\* the state of numpy's generator after k draws
RECURSIVE Draws(_, _)
Draws(g, k) == IF k = 0 THEN g ELSE NextGen(Draws(g, k - 1))

\* the generator of the model returns to its state after 30 draws
GenAt(g, k) == Draws(g, k % 30)

\* a draw from the standard normal distribution, in units of 1/Unit; it
\* is never exactly 0.0
Normal(g) == LET k == g % 6 IN IF k < 3 THEN k - 3 ELSE k - 2

\* np.random.normal(0, 1, n)
WhiteNoise(n, g) == [i \in 1..n |-> Normal(GenAt(g, i))]

\* the number of samples np.fft.irfft returns for the len(y) // 2 + 1 bins
\* of np.fft.rfft: n = 2 * (bins - 1), its default
IrfftLen(bins) == 2 * (bins - 1)

\* the pink branch: rfft, division by sqrt(freq), irfft. The spectrum is
\* not computed here: the shaped samples stand for a low-pass mix of the
\* white samples; the number of samples is the one numpy returns
PinkNoise(n, g) ==
    LET w == WhiteNoise(n, g)
    IN  [i \in 1..IrfftLen(n \div 2 + 1) |-> 3 * w[i] + w[(i % n) + 1]]

\* the impulse branch: num_impulses positions from randint(0, len(y)),
\* then as many amplitudes from normal(0, 5); noise[impulse_pos] = ...
\* keeps the last amplitude assigned to a position
ImpulseNoise(n, g) ==
    LET num == n \div ImpulseDivisor
        pos(k) == GenAt(g, k) % n
        amp(k) == 5 * Normal(GenAt(g, num + k))
        hits(i) == {k \in 1..num : pos(k) = i - 1}
        last(S) == CHOOSE k \in S : \A j \in S : j <= k
    IN  [i \in 1..n |-> IF hits(i) = {} THEN 0 ELSE amp(last(hits(i)))]

\* step 2: the noise of the asked type, or the exception raised on the way
Synthesize(noise_type, n, g) ==
    CASE noise_type = "white" -> [status |-> "ok", noise |-> WhiteNoise(n, g)]
      [] noise_type = "pink" ->
            \* rfft of no sample and irfft to no sample raise ValueError
            IF n = 0 \/ IrfftLen(n \div 2 + 1) < 1
            THEN [status |-> "ValueError", noise |-> <<>>]
            ELSE [status |-> "ok", noise |-> PinkNoise(n, g)]
      [] noise_type = "impulse" ->
            \* randint(0, 0, 0) raises ValueError: low >= high
            IF n = 0
            THEN [status |-> "ValueError", noise |-> <<>>]
            ELSE [status |-> "ok", noise |-> ImpulseNoise(n, g)]
      [] OTHER -> [status |-> "ValueError", noise |-> <<>>]

\* np.max(np.abs(noise)), of a noise that is not empty
MaxAbs(noise) ==
    LET A == {Abs(noise[i]) : i \in DOMAIN noise}
    IN  CHOOSE m \in A : \A a \in A : a <= m

\* noise_level * (noise / max)[i]: 0 / 0 is nan (numpy warns and goes on)
ScaledNoise(x, max, noise_level) ==
    IF max = 0 THEN NaN ELSE Num(IntDiv(noise_level * x, max))

\* y[i] + noise_level * noise[i]
Add(a, b) == IF b.nan THEN NaN ELSE Num(a + b.v)

\* np.clip(x, -1.0, 1.0): nan stays nan
Clip(x) ==
    IF x.nan THEN x
    ELSE IF x.v > Unit THEN Num(Unit)
    ELSE IF x.v < -Unit THEN Num(-Unit)
    ELSE x

\* steps 3 and 4: normalise, add (numpy broadcasts a length of 1, raises
\* ValueError on any other two lengths that differ), clip
Mix(y, noise, noise_level) ==
    IF Len(noise) = 0
    THEN [status |-> "ValueError", samples |-> <<>>]
    ELSE LET max == MaxAbs(noise)
             n == IF Len(y) = 1 THEN Len(noise) ELSE Len(y)
             yAt(i) == IF Len(y) = 1 THEN y[1] ELSE y[i]
             nAt(i) == IF Len(noise) = 1 THEN noise[1] ELSE noise[i]
         IN  IF Len(y) # Len(noise) /\ Len(y) # 1 /\ Len(noise) # 1
             THEN [status |-> "ValueError", samples |-> <<>>]
             ELSE [status |-> "ok",
                   samples |-> [i \in 1..n |->
                       Clip(Add(yAt(i), ScaledNoise(nAt(i), max, noise_level)))]]

\* the whole call: every exception is caught at line 66 and the call
\* returns False; otherwise the waveform is written and it returns True
AddNoiseResult(y, sr, noise_type, noise_level, seed) ==
    LET syn == Synthesize(noise_type, Len(y), SeedGen(seed))
        mix == Mix(y, syn.noise, noise_level)
        in == [y |-> y, sr |-> sr, noise_type |-> noise_type,
               noise_level |-> noise_level, seed |-> seed]
    IN  IF syn.status # "ok"
        THEN [status |-> "done", in |-> in, synthesized |-> FALSE,
              noise |-> <<>>, result |-> FALSE, out |-> NoWav]
        ELSE IF mix.status # "ok"
        THEN [status |-> "done", in |-> in, synthesized |-> TRUE,
              noise |-> syn.noise, result |-> FALSE, out |-> NoWav]
        ELSE [status |-> "done", in |-> in, synthesized |-> TRUE,
              noise |-> syn.noise, result |-> TRUE,
              out |-> [status |-> "written", samples |-> mix.samples,
                       sr |-> sr]]

\* one call, on an output path that holds no file yet
AddNoiseToAudio ==
    /\ call = Idle
    /\ \E y \in Waveforms, sr \in SampleRates, noise_type \in NoiseTypes,
          noise_level \in NoiseLevels, seed \in Seeds :
          LET r == AddNoiseResult(y, sr, noise_type, noise_level, seed)
          IN  /\ call' = r
              /\ wavOut' = r.out
    /\ UNCHANGED rng
    /\ UNCHANGED balanceVars
    /\ UNCHANGED splitVars

InitNoise ==
    /\ rng = 0
    /\ wavOut = NoWav
    /\ call = Idle
    /\ inWalk = <<>>
    /\ unreadable = {}
    /\ outRoot = NoRoot
    /\ bal = Idle
    /\ cfg = Idle
    /\ labelDir = NoLabelDir
    /\ first = Idle
    /\ second = Idle

NextNoise == AddNoiseToAudio

SpecNoise == InitNoise /\ [][NextNoise]_vars

(***************************************************************************)
(* Claims about add_noise_to_audio.                                        *)
(***************************************************************************)
KnownType == call.in.noise_type \in {"white", "pink", "impulse"}

\* C4: for every waveform, every noise type of white, pink and impulse,
\* every level > 0 and every seed, each sample of the waveform the mixing
\* step produces lies in [-1.0, 1.0].
C4_SamplesInRange ==
    (call # Idle /\ KnownType /\ wavOut # NoWav) =>
        \A i \in DOMAIN wavOut.samples :
            /\ ~wavOut.samples[i].nan
            /\ wavOut.samples[i].v >= -Unit
            /\ wavOut.samples[i].v <= Unit

\* C5: for every noise type of white, pink and impulse and every waveform
\* length, odd or even, the noise has as many samples as the waveform, the
\* mix succeeds and the output has the length and the sample rate of the
\* input.
C5_NoiseLengthMatches ==
    (call # Idle /\ KnownType /\ Len(call.in.y) > 0) =>
        /\ call.synthesized
        /\ Len(call.noise) = Len(call.in.y)
        /\ call.result
        /\ wavOut # NoWav
        /\ Len(wavOut.samples) = Len(call.in.y)
        /\ wavOut.sr = call.in.sr

\* C6: whenever the synthesized noise is all zeros, the call fails for
\* that file: it returns False and writes no output waveform.
C6_ZeroNoiseFails ==
    ( /\ call # Idle
      /\ call.synthesized
      /\ \A i \in DOMAIN call.noise : call.noise[i] = 0 )
        => (~call.result /\ wavOut = NoWav)

====
